---- MODULE Spec2Model ----
(***************************************************************************)
(* Payment service (src/routes/payment.py): the create-checkout line-item  *)
(* computation and the two order-confirmation pipelines.                   *)
(*                                                                         *)
(* Money.  Every amount of a request (price, discount, delivery_fee) is an *)
(* integer number of mills, 1 mill = 0.001 peso = 0.1 centavo, so that     *)
(* amounts finer than a centavo exist.  The code's "x * 100" (pesos to     *)
(* centavos) is therefore "x / 10" here.  Python floats are modelled as    *)
(* exact rationals num/den; round() is Python 3's round-half-to-even and   *)
(* int() truncates toward zero.                                            *)
(***************************************************************************)
EXTENDS Integers, Sequences, FiniteSets, TLC

\* ------------------------------------------------------------- bounds ----
MaxLines == 2   \* most lines of a create-checkout cart
MaxCart == 2    \* most cart_items of a confirm request

\* ---------------------------------------------------- input value sets ----
\* prices in mills: 0, 0.02 and 10.00 pesos
PriceSet == {0, 20, 10000}
\* discounts in mills: 0, 0.01 and 1.00 pesos
DiscountSet == {0, 10, 1000}
\* delivery fees in mills: 0, 0.009 and 50.00 pesos
FeeSet == {0, 9, 50000}
\* quantity is an unconstrained int of CheckoutItem; 0 is accepted by the schema
QtySet == {0, 1, 3}

\* --------------------------------------------------------- arithmetic ----
\* Python round(n/d) for d > 0: nearest integer, ties to the even one.
PyRound(n, d) ==
    LET q == n \div d
        r == n % d
    IN  IF 2 * r < d THEN q
        ELSE IF 2 * r > d THEN q + 1
        ELSE IF q % 2 = 0 THEN q ELSE q + 1

\* Python int(n/d) for d > 0: truncation toward zero.
PyInt(n, d) == IF n >= 0 THEN n \div d ELSE -((-n) \div d)

\* greatest common divisor of a >= 0 and b >= 0 (b when a = 0)
RECURSIVE GCD(_, _)
GCD(a, b) == IF b = 0 THEN a ELSE GCD(b, a % b)

RECURSIVE SumSeq(_)
SumSeq(s) == IF s = <<>> THEN 0 ELSE Head(s) + SumSeq(Tail(s))

\* -------------------------------------------- create-checkout amounts ----
\* subtotal = sum(item.price * item.quantity for item in payload.items), mills
Subtotal(items) == SumSeq([k \in 1..Len(items) |-> items[k].price * items[k].quantity])

\* the request is rejected with 400 when the discount exceeds the subtotal
DiscountFinalTotalMutant(items, discount, fee) == discount > Subtotal(items) + fee

InvalidDiscount(items, discount, fee) == discount > Subtotal(items)

\* discount_ratio as the pair <<numerator, denominator>> in lowest terms:
\* (subtotal - discount) / subtotal when there is a discount, else 1.0
DiscountRatio(items, discount) ==
    IF discount > 0 /\ Subtotal(items) > 0
    THEN LET g == GCD(Subtotal(items) - discount, Subtotal(items))
         IN  <<(Subtotal(items) - discount) \div g, Subtotal(items) \div g>>
    ELSE <<1, 1>>

\* Denominator shared by every ideal_total (centavos): price * ratio / 10.
CentDen(items, discount) == DiscountRatio(items, discount)[2] * 10

\* per_unit_centavos = round(per_unit_price * 100), where
\* per_unit_price = (item.price * discount_ratio) / item.quantity
PerUnitCentavos(items, discount, k) ==
    PyRound(items[k].price * DiscountRatio(items, discount)[1],
            CentDen(items, discount) * items[k].quantity)

\* ideal_total = discounted_price * 100, as a numerator over CentDen
IdealTotalNum(items, discount, k) ==
    items[k].price * DiscountRatio(items, discount)[1]

\* accumulated_centavos after the lines 1..k, k < Len(items), as a numerator
\* over CentDen: the sum of ideal_total - item_amount
RECURSIVE AccumulatedNum(_, _, _)
AccumulatedNum(items, discount, k) ==
    IF k = 0 THEN 0
    ELSE AccumulatedNum(items, discount, k - 1)
         + IdealTotalNum(items, discount, k)
         - PerUnitCentavos(items, discount, k) * items[k].quantity
           * CentDen(items, discount)

\* item_amount of line k
ItemAmount(items, discount, k) ==
    IF k < Len(items)
    THEN PerUnitCentavos(items, discount, k) * items[k].quantity
    ELSE PerUnitCentavos(items, discount, k) * items[k].quantity
         + PyRound(AccumulatedNum(items, discount, Len(items) - 1),
                   CentDen(items, discount))

\* the delivery line, present when delivery_fee > 0
DeliveryLines(fee) ==
    IF fee > 0
    THEN << [name |-> "Delivery Fee", amount |-> PyInt(fee, 10), quantity |-> 1] >>
    ELSE << >>

\* line_items as sent to the processor
LineItems(items, discount, fee) ==
    [k \in 1..Len(items) |->
        [name |-> "item", amount |-> ItemAmount(items, discount, k),
         quantity |-> items[k].quantity]]
    \o DeliveryLines(fee)

\* amount_in_centavos = int((subtotal * discount_ratio + delivery_fee) * 100)
AmountInCentavos(items, discount, fee) ==
    PyInt(Subtotal(items) * DiscountRatio(items, discount)[1]
          + fee * DiscountRatio(items, discount)[2],
          CentDen(items, discount))

\* the loop divides by item.quantity: a zero quantity raises ZeroDivisionError
BuildRaises(items) == \E k \in 1..Len(items) : items[k].quantity = 0

\* ------------------------------------------------------ HTTP outcomes ----
\* status codes a collaborator may answer a call of `step` with
StatusCodes(step) ==
    IF step = "pos" THEN {200, 201, 204, 500}
    ELSE IF step \in {"cart", "finalize", "delivery", "update"} THEN {200, 404, 500}
    ELSE IF step = "auth" THEN {200, 401}
    ELSE IF step = "session" THEN {200, 400, 500}
    ELSE {200, 500}

\* what one outbound call comes back with: a response (its status code and
\* its text, which names the endpoint that wrote it), or a network failure
\* (httpx.RequestError)
Outcomes(step) ==
    {[kind |-> "status", code |-> c, text |-> step] : c \in StatusCodes(step)}
    \cup {[kind |-> "neterr", code |-> 0, text |-> ""]}

\* a raise_for_status() that raises on 5xx only
IsSuccessBelow500(out) == out.kind = "status" /\ out.code < 500

\* response.is_success: raise_for_status() raises HTTPStatusError otherwise
IsSuccess(out) == out.kind = "status" /\ out.code \in 200..299

Roles == {"user", "admin", "staff", "rider", "cashier"}

\* a role list of the payment endpoints that lets riders in
AllowedRolesWithRider == {"user", "admin", "staff", "rider"}

\* allowed_roles of create-checkout and of both confirm endpoints
AllowedRoles == {"user", "admin", "staff"}

\* allowed_roles of the status-update endpoint
StatusAllowedRoles == {"rider", "admin", "staff", "cashier"}

\* the role list each endpoint passes to validate_token_and_roles
AllowedRolesOf(r) ==
    IF r.endpoint = "update_status" THEN StatusAllowedRoles ELSE AllowedRoles

\* -------------------------------------------------------------- requests ----
Lines == [price : PriceSet, quantity : QtySet]
Carts == UNION {[1..n -> Lines] : n \in 0..MaxLines}

CheckoutRequests ==
    {[endpoint |-> "create_checkout", items |-> its, discount |-> d,
      delivery_fee |-> f, delivery_info |-> FALSE] :
        its \in Carts, d \in DiscountSet, f \in FeeSet}

\* CartItem.discount is Optional: << >> is None, <<d>> the amount d
CartItems ==
    {[price |-> 10000, quantity |-> 1, discount |-> <<0>>],
     [price |-> 20, quantity |-> 2, discount |-> <<10>>],
     [price |-> 20, quantity |-> 1, discount |-> << >>]}
ConfirmCarts == UNION {[1..n -> CartItems] : n \in 0..MaxCart}

ConfirmRequests ==
    {[endpoint |-> e, items |-> its, discount |-> 0, delivery_fee |-> 0,
      delivery_info |-> di] :
        e \in {"confirm_payment", "confirm_payment_and_save_pos"},
        its \in ConfirmCarts, di \in BOOLEAN}

\* PATCH /auth/purchase_orders/online/{order_id}/status with its newStatus
StatusValues == {"completed", "cancelled"}

StatusRequests ==
    {[endpoint |-> "update_status", newStatus |-> st, items |-> << >>,
      discount |-> 0, delivery_fee |-> 0, delivery_info |-> FALSE] :
        st \in StatusValues}

\* ------------------------------------------------------------------ state ----
VARIABLES
    req,          \* the inbound request payload (never assigned by a handler)
    pc,           \* the handler's position: the call it is about to make
    idx,          \* the cart line the "for item in payload.cart_items" loop is at
    calls,        \* the outbound calls issued so far, with what they came back with
    resp,         \* the response delivered to the client
    customer_id,  \* create-checkout: a processor customer was created
    line_items,   \* create-checkout: the line_items of the checkout-session body
    total_centavos, \* create-checkout: amount_in_centavos
    pos_payload,  \* pos variant: pos_order_payload, once built
    pos_valid,    \* pos variant: the verdict of OnlineOrderRequest(**pos_order_payload)
    role,         \* user_data.get("userRole") of a successful identity check
    session_customer, \* create-checkout: the 'customer' attribute of the session body
    db            \* status update: the Orders row of order_id, the transaction,
                  \* the cursor and the connection

\* two confirm_payment requests of one username in flight at once, and what
\* the ordering service holds for that username
VARIABLES
    run_req,      \* the payload of each request
    run_pc,       \* each handler's position
    run_idx,      \* each handler's place in its cart loop
    run_calls,    \* the calls each handler issued, with what they came back with
    run_resp,     \* the response each client got
    pending,      \* the lines of the username's pending order
    orders        \* the username's finalized orders

svars == <<req, pc, idx, calls, resp, customer_id, line_items, total_centavos,
           pos_payload, pos_valid, role, session_customer, db>>

cvars == <<run_req, run_pc, run_idx, run_calls, run_resp, pending, orders>>

vars == <<svars, cvars>>

\* the response: its status, the fixed part of its detail or message, and
\* the upstream response text its detail quotes (body)
NoResp == [kind |-> "none", status |-> 0, detail |-> "", body |-> ""]
Error(s, d) == [kind |-> "error", status |-> s, detail |-> d, body |-> ""]
ErrorQuoting(s, d, b) == [kind |-> "error", status |-> s, detail |-> d, body |-> b]
Ok(d) == [kind |-> "ok", status |-> 200, detail |-> d, body |-> ""]

Call(step, line, out) == [step |-> step, line |-> line, out |-> out]

\* no connection: the Orders table is not touched
NoDb ==
    [exists |-> FALSE, status |-> "", written |-> "", updates |-> 0,
     commits |-> 0, rollbacks |-> 0, failed |-> FALSE,
     cursor |-> "none", conn |-> "none"]

\* the order of order_id as the status update finds it: there with status
\* "pending", or not there
OrderRows ==
    {[NoDb EXCEPT !.exists = e, !.status = IF e THEN "pending" ELSE ""] :
        e \in BOOLEAN}

\* no second request in flight
NoRuns ==
    /\ run_req = << >>
    /\ run_pc = << >>
    /\ run_idx = << >>
    /\ run_calls = << >>
    /\ run_resp = << >>
    /\ pending = << >>
    /\ orders = << >>

Init ==
    /\ NoRuns
    /\ req \in CheckoutRequests \cup ConfirmRequests \cup StatusRequests
    /\ db \in IF req.endpoint = "update_status" THEN OrderRows ELSE {NoDb}
    /\ pc = "auth"
    /\ idx = 1
    /\ calls = << >>
    /\ resp = NoResp
    /\ customer_id = FALSE
    /\ line_items = << >>
    /\ total_centavos = 0
    /\ pos_payload = << >>
    /\ pos_valid = "none"
    /\ role = "none"
    /\ session_customer = "none"

\* the handler raised HTTPException / returned: the request is over
Finish(r) == /\ resp' = r
             /\ pc' = "done"

\* ------------------------------------------------------------------- S0 ----
\* a confirm_payment that, like the pos variant, does not add the cart items
FirstStepSkipsCart(r) ==
    IF r.endpoint = "create_checkout" THEN "discount_check"
    ELSE IF r.endpoint = "update_status" THEN "db_connect"
    ELSE "finalize"

\* a create-checkout that sets the customer up before it looks at the discount
FirstStepProfileFirst(r) ==
    IF r.endpoint = "create_checkout" THEN "profile"
    ELSE IF r.endpoint = "update_status" THEN "db_connect"
    ELSE IF r.endpoint = "confirm_payment" /\ Len(r.items) > 0 THEN "cart"
    ELSE "finalize"

\* the first downstream step of each endpoint
FirstStep(r) ==
    IF r.endpoint = "create_checkout" THEN "discount_check"
    ELSE IF r.endpoint = "update_status" THEN "db_connect"
    ELSE IF r.endpoint = "confirm_payment" /\ Len(r.items) > 0 THEN "cart"
    ELSE "finalize"

\* validate_token_and_roles(token, ["user", "admin", "staff"])
ValidateToken ==
    /\ pc = "auth"
    /\ \E out \in Outcomes("auth"), r \in Roles :
        /\ calls' = Append(calls, Call("auth", 0, out))
        /\ IF out.kind = "neterr"
           THEN /\ Finish(Error(503, "Auth service unavailable."))
                /\ role' = role
           ELSE IF ~IsSuccess(out)
           THEN /\ Finish(Error(out.code, "Authentication failed."))
                /\ role' = role
           ELSE /\ role' = r
                /\ IF r \notin AllowedRolesOf(req)
                   THEN Finish(Error(403, "Access denied."))
                   ELSE /\ pc' = FirstStep(req)
                        /\ resp' = resp
    /\ UNCHANGED <<req, idx, customer_id, line_items, total_centavos, pos_payload,
                   pos_valid>>
    /\ UNCHANGED <<session_customer, db, cvars>>

\* -------------------------------------------------------- create-checkout ----
\* Step 0: "discount should never exceed subtotal"
CheckDiscount ==
    /\ pc = "discount_check"
    /\ IF InvalidDiscount(req.items, req.discount, req.delivery_fee)
       THEN Finish(Error(400, "Invalid discount amount"))
       ELSE /\ pc' = "profile"
            /\ resp' = resp
    /\ UNCHANGED <<req, idx, calls, customer_id, line_items, total_centavos,
                   pos_payload, pos_valid, role>>
    /\ UNCHANGED <<session_customer, db, cvars>>

\* GET /users/profile; every failure is swallowed (customer_id = None)
FetchProfile ==
    /\ pc = "profile"
    /\ \E out \in Outcomes("profile"), has_email \in BOOLEAN :
        /\ calls' = Append(calls, Call("profile", 0, out))
        /\ pc' = IF IsSuccess(out) /\ has_email THEN "customer" ELSE "session"
    /\ customer_id' = FALSE
    /\ UNCHANGED <<req, idx, resp, line_items, total_centavos, pos_payload,
                   pos_valid, role>>
    /\ UNCHANGED <<session_customer, db, cvars>>

\* POST /v1/customers; every failure is swallowed (customer_id = None)
CreateCustomer ==
    /\ pc = "customer"
    /\ \E out \in Outcomes("customer") :
        /\ calls' = Append(calls, Call("customer", 0, out))
        /\ customer_id' = IsSuccess(out)
    /\ pc' = "session"
    /\ UNCHANGED <<req, idx, resp, line_items, total_centavos, pos_payload,
                   pos_valid, role>>
    /\ UNCHANGED <<session_customer, db, cvars>>

\* an error mapping without the HTTPStatusError clause
SessionResponseCatchAll(out) ==
    IF IsSuccess(out) THEN Ok("checkout_url")
    ELSE Error(500, "Unexpected server error.")

\* what create-checkout answers once the checkout-session call came back
SessionResponse(out) ==
    IF IsSuccess(out) THEN Ok("checkout_url")
    ELSE IF out.kind = "status"
    THEN Error(out.code, "PayMongo payment error.")
    ELSE Error(500, "Unexpected server error.")

\* a session body that names a customer whether or not one was created
CustomerAlwaysAttached(cid) == "attached"

\* "if customer_id and name and email: attributes['customer'] = customer_id";
\* customer_id is set only after name and email were found truthy
CustomerAttribute(cid) == IF cid THEN "attached" ELSE "absent"

\* the line-item loop, then POST /v1/checkout_sessions
CreateSession ==
    /\ pc = "session"
    /\ IF BuildRaises(req.items)
       THEN /\ Finish(Error(500, "Unexpected server error."))
            /\ UNCHANGED <<calls, line_items, total_centavos, session_customer>>
       ELSE /\ line_items' = LineItems(req.items, req.discount, req.delivery_fee)
            /\ session_customer' = CustomerAttribute(customer_id)
            /\ total_centavos' =
                   AmountInCentavos(req.items, req.discount, req.delivery_fee)
            /\ \E out \in Outcomes("session") :
                /\ calls' = Append(calls, Call("session", 0, out))
                /\ Finish(SessionResponse(out))
    /\ UNCHANGED <<req, idx, customer_id, pos_payload, pos_valid, role>>
    /\ UNCHANGED <<db, cvars>>

\* ------------------------------------------------- exception handlers ----
\* what a failed call makes the handler's try block raise
HTTPStatusError(out) ==
    [type |-> "HTTPStatusError", status |-> out.code, detail |-> out.text]
RequestError == [type |-> "RequestError", status |-> 0, detail |-> ""]
HTTPException(s, d) == [type |-> "HTTPException", status |-> s, detail |-> d]
NoException == [type |-> "none", status |-> 0, detail |-> ""]

\* call came back with `out` after raise_for_status(): the exception it raises
Raised(out) == IF out.kind = "neterr" THEN RequestError ELSE HTTPStatusError(out)

\* the except clauses of confirm_payment: HTTPStatusError, then Exception
ConfirmPaymentExcept(exc) ==
    IF exc.type = "HTTPStatusError"
    THEN ErrorQuoting(exc.status, "Ordering service error", exc.detail)
    ELSE Error(500, "Unexpected server error.")

\* except clauses with the catch-all ahead of the HTTPStatusError clause
ConfirmPosExceptCatchAll(exc) ==
    IF exc.type = "HTTPException"
    THEN Error(exc.status, exc.detail)
    ELSE Error(500, "Unexpected server error")

\* the except clauses of confirm_payment_and_save_pos: HTTPStatusError,
\* HTTPException (re-raised as-is), then Exception
ConfirmPosExcept(exc) ==
    IF exc.type = "HTTPStatusError"
    THEN ErrorQuoting(exc.status, "Service error", exc.detail)
    ELSE IF exc.type = "HTTPException"
    THEN Error(exc.status, exc.detail)
    ELSE Error(500, "Unexpected server error")

\* handlers that log the exception and answer with the success message
ExceptReportsSuccess(r, exc) == Ok("Payment confirmed and order placed successfully")

\* the except clauses of the endpoint the request went to
Except(r, exc) ==
    IF r.endpoint = "confirm_payment" THEN ConfirmPaymentExcept(exc)
    ELSE ConfirmPosExcept(exc)

IsConfirm == req.endpoint \in {"confirm_payment", "confirm_payment_and_save_pos"}

\* ------------------------------------------------------------ S1 .. S4 ----
\* a loop that leaves for finalize after its first line
CartNextFinalizeEarly(r, i) == "finalize"

\* where the cart loop goes after line i was added: the next line, or, the
\* loop exhausted, the finalize call
CartNext(r, i) == IF i + 1 > Len(r.items) THEN "finalize" ELSE "cart"

\* confirm_payment only: one POST /cart/ per entry of cart_items
AddCartItem ==
    /\ pc = "cart"
    /\ idx <= Len(req.items)
    /\ \E out \in Outcomes("cart") :
        /\ calls' = Append(calls, Call("cart", idx, out))
        /\ IF IsSuccess(out)
           THEN /\ idx' = idx + 1
                /\ pc' = CartNext(req, idx)
                /\ resp' = resp
           ELSE /\ Finish(Except(req, Raised(out)))
                /\ idx' = idx
    /\ UNCHANGED <<req, customer_id, line_items, total_centavos, pos_payload,
                   pos_valid, role>>
    /\ UNCHANGED <<session_customer, db, cvars>>

\* a pipeline that never saves the delivery info
AfterFinalizeSkipsDelivery(r) == "update"

\* the step after a successful finalize
AfterFinalize(r) == IF r.delivery_info THEN "delivery" ELSE "update"

\* a finalize that takes 404 for "nothing left to finalize" and goes on
FinalizeTolerates404(out) ==
    IF out.kind = "status" /\ out.code = 404 THEN NoException
    ELSE IF ~IsSuccess(out) THEN Raised(out)
    ELSE NoException

\* what the finalize response makes the try block raise: HTTPException(404)
\* on status 404, else whatever raise_for_status() raises
FinalizeRaises(out) ==
    IF out.kind = "status" /\ out.code = 404
    THEN HTTPException(404, "No pending order found for user")
    ELSE IF ~IsSuccess(out) THEN Raised(out)
    ELSE NoException

\* POST /cart/finalize
FinalizeOrder ==
    /\ pc = "finalize"
    /\ \E out \in Outcomes("finalize") :
        /\ calls' = Append(calls, Call("finalize", 0, out))
        /\ IF FinalizeRaises(out) # NoException
           THEN Finish(Except(req, FinalizeRaises(out)))
           ELSE /\ pc' = AfterFinalize(req)
                /\ resp' = resp
    /\ UNCHANGED <<req, idx, customer_id, line_items, total_centavos, pos_payload,
                   pos_valid, role>>
    /\ UNCHANGED <<session_customer, db, cvars>>

\* POST /delivery/info, issued only "if payload.delivery_info"
SaveDeliveryInfo ==
    /\ pc = "delivery"
    /\ \E out \in Outcomes("delivery") :
        /\ calls' = Append(calls, Call("delivery", 0, out))
        /\ IF IsSuccess(out)
           THEN /\ pc' = "update"
                /\ resp' = resp
           ELSE Finish(Except(req, Raised(out)))
    /\ UNCHANGED <<req, idx, customer_id, line_items, total_centavos, pos_payload,
                   pos_valid, role>>
    /\ UNCHANGED <<session_customer, db, cvars>>

\* PUT /cart/update-payment; confirm_payment returns its message after it
UpdatePayment ==
    /\ pc = "update"
    /\ \E out \in Outcomes("update") :
        /\ calls' = Append(calls, Call("update", 0, out))
        /\ IF ~IsSuccess(out)
           THEN Finish(Except(req, Raised(out)))
           ELSE IF req.endpoint = "confirm_payment"
           THEN Finish(Ok("Payment confirmed and order placed successfully"))
           ELSE /\ pc' = "pos"
                /\ resp' = resp
    /\ UNCHANGED <<req, idx, customer_id, line_items, total_centavos, pos_payload,
                   pos_valid, role>>
    /\ UNCHANGED <<session_customer, db, cvars>>

\* ------------------------------------------------------------------- S5 ----
\* "x or 0.0" of an Optional[float]: None and 0.0 are falsy
OrZero(opt) == IF opt = << >> THEN 0 ELSE opt[1]

\* items that carry the price net of the item-level discount
NormalizedItemsNetPrice(items) ==
    [k \in 1..Len(items) |->
        [quantity |-> items[k].quantity,
         price |-> items[k].price - OrZero(items[k].discount),
         discount |-> OrZero(items[k].discount)]]

\* normalized_items: the original price and quantity, the item-level discount
NormalizedItems(items) ==
    [k \in 1..Len(items) |->
        [quantity |-> items[k].quantity, price |-> items[k].price,
         discount |-> OrZero(items[k].discount)]]

\* pos_order_payload: its status and its items
PosOrderPayload(r) == [status |-> "pending", items |-> NormalizedItems(r.items)]

\* a POS check by "response.ok": every 2xx yields the receipt
PosAcceptedAny2xx(out) == IsSuccess(out)

\* the statuses of the POS call that yield the receipt
PosAccepted(out) == out.kind = "status" /\ out.code \in {200, 201}

\* a gate that logs the validation error and sends the payload anyway
PosGateOpen(valid) == TRUE

\* "Validate POS payload before sending": the POST is reached only when
\* OnlineOrderRequest(**pos_order_payload) did not raise ValidationError
PosGate(valid) == valid

\* build pos_order_payload, validate it against OnlineOrderRequest, POST it.
\* The verdict of the pydantic validator is the library's: either outcome.
SaveToPOS ==
    /\ pc = "pos"
    /\ pos_payload' = PosOrderPayload(req)
    /\ \E valid \in BOOLEAN :
        /\ pos_valid' = IF valid THEN "valid" ELSE "invalid"
        /\ IF ~PosGate(valid)
           THEN /\ Finish(Except(req, HTTPException(500, "Invalid POS payload")))
                /\ calls' = calls
           ELSE \E out \in Outcomes("pos") :
                /\ calls' = Append(calls, Call("pos", 0, out))
                /\ IF out.kind = "neterr"
                   THEN Finish(Except(req, RequestError))
                   ELSE IF ~PosAccepted(out)
                   THEN Finish(Except(req, HTTPException(500,
                            "Order created in OOS but failed to save to POS")))
                   ELSE Finish(Ok("Payment confirmed, order placed successfully, and saved to POS as PENDING"))
    /\ UNCHANGED <<req, idx, customer_id, line_items, total_centavos, role>>
    /\ UNCHANGED <<session_customer, db, cvars>>

\* ---------------------------------------------------- status update ----
\* what a failed database call raises
DatabaseError == [type |-> "DatabaseError", status |-> 0, detail |-> ""]

\* the handler's only except clause, "except Exception": it takes every
\* exception of the try block, the HTTPException(404) raised there included
UpdateStatusExcept(exc) == Error(500, "Failed to update POS order status.")

\* "finally": cursor.close(), conn.close()
Closed(d) == [d EXCEPT !.cursor = "closed", !.conn = "closed"]

\* "except Exception": conn.rollback() drops what the transaction wrote; then
\* the finally block; then the HTTPException of the except clause
RollBackAndRaise(exc, failed) ==
    /\ db' = Closed([db EXCEPT !.written = "", !.rollbacks = @ + 1,
                               !.failed = failed])
    /\ Finish(UpdateStatusExcept(exc))

\* get_db_connection() and conn.cursor(), before the try block
OpenConnection ==
    /\ pc = "db_connect"
    /\ db' = [db EXCEPT !.conn = "open", !.cursor = "open"]
    /\ pc' = "db_select"
    /\ UNCHANGED <<req, idx, calls, resp, customer_id, line_items, total_centavos,
                   pos_payload, pos_valid, role, session_customer>>
    /\ UNCHANGED cvars

\* SELECT OrderID ... and fetchone(); "if not order: raise HTTPException(404)"
SelectOrder ==
    /\ pc = "db_select"
    /\ \E ok \in BOOLEAN :
        IF ~ok
        THEN RollBackAndRaise(DatabaseError, TRUE)
        ELSE IF ~db.exists
        THEN RollBackAndRaise(HTTPException(404, "Order not found"), FALSE)
        ELSE /\ pc' = "db_update"
             /\ UNCHANGED <<db, resp>>
    /\ UNCHANGED <<req, idx, calls, customer_id, line_items, total_centavos,
                   pos_payload, pos_valid, role, session_customer>>
    /\ UNCHANGED cvars

\* UPDATE Orders SET Status = newStatus, inside the transaction
UpdateOrder ==
    /\ pc = "db_update"
    /\ \E ok \in BOOLEAN :
        IF ~ok
        THEN RollBackAndRaise(DatabaseError, TRUE)
        ELSE /\ db' = [db EXCEPT !.written = req.newStatus, !.updates = @ + 1]
             /\ pc' = "db_commit"
             /\ resp' = resp
    /\ UNCHANGED <<req, idx, calls, customer_id, line_items, total_centavos,
                   pos_payload, pos_valid, role, session_customer>>
    /\ UNCHANGED cvars

\* conn.commit(), the success message, and the finally block
CommitOrder ==
    /\ pc = "db_commit"
    /\ \E ok \in BOOLEAN :
        IF ~ok
        THEN RollBackAndRaise(DatabaseError, TRUE)
        ELSE /\ db' = Closed([db EXCEPT !.status = db.written, !.written = "",
                                        !.commits = @ + 1])
             /\ Finish(Ok("POS order status successfully updated"))
    /\ UNCHANGED <<req, idx, calls, customer_id, line_items, total_centavos,
                   pos_payload, pos_valid, role, session_customer>>
    /\ UNCHANGED cvars

\* ------------------------------------------------------------------ spec ----
Next ==
    \/ ValidateToken
    \/ CheckDiscount
    \/ FetchProfile
    \/ CreateCustomer
    \/ CreateSession
    \/ AddCartItem
    \/ FinalizeOrder
    \/ SaveDeliveryInfo
    \/ UpdatePayment
    \/ SaveToPOS
    \/ OpenConnection
    \/ SelectOrder
    \/ UpdateOrder
    \/ CommitOrder

Spec == Init /\ [][Next]_vars

\* ------------------------------------- two requests of one username ----
\* Each handler is a coroutine of its own: it holds no lock and shares no
\* variable with the other, and every "await client.post/put" lets the other
\* run. What the two share is the ordering service's pending order of the
\* username both payloads carry.
Runs == {"A", "B"}

\* a line is told apart by the run that added it and its place in that
\* run's cart, so the carts of the two runs are filled with one item
RunRequests ==
    {r \in ConfirmRequests :
        /\ r.endpoint = "confirm_payment"
        /\ \A k \in 1..Len(r.items) : r.items[k].discount = << >>}

\* no single request besides the two
NoSingle ==
    /\ req = << >>
    /\ pc = "idle"
    /\ idx = 0
    /\ calls = << >>
    /\ resp = NoResp
    /\ customer_id = FALSE
    /\ line_items = << >>
    /\ total_centavos = 0
    /\ pos_payload = << >>
    /\ pos_valid = "none"
    /\ role = "none"
    /\ session_customer = "none"
    /\ db = NoDb

\* both requests have passed validate_token_and_roles
InitRuns ==
    /\ NoSingle
    /\ run_req \in [Runs -> RunRequests]
    /\ run_pc = [p \in Runs |-> FirstStep(run_req[p])]
    /\ run_idx = [p \in Runs |-> 1]
    /\ run_calls = [p \in Runs |-> << >>]
    /\ run_resp = [p \in Runs |-> NoResp]
    /\ pending = << >>
    /\ orders = << >>

\* what the ordering service can answer: finalize answers 404 exactly when
\* the username has no pending order (the case line 353 tests for); any
\* call can fail with a 5xx or at network level
OrderingOutcomes(step, pend) ==
    {o \in Outcomes(step) :
        step = "finalize" =>
            IF pend = << >> THEN o.code # 200 ELSE o.code # 404}

\* the handler of p raised: its except clause answers its client
RunFinish(p, r) ==
    /\ run_resp' = [run_resp EXCEPT ![p] = r]
    /\ run_pc' = [run_pc EXCEPT ![p] = "done"]

RunGoto(p, step) ==
    /\ run_pc' = [run_pc EXCEPT ![p] = step]
    /\ run_resp' = run_resp

\* POST /cart/ of p: the line joins the username's pending order
RunAddCartItem(p) ==
    /\ run_pc[p] = "cart"
    /\ run_idx[p] <= Len(run_req[p].items)
    /\ \E out \in OrderingOutcomes("cart", pending) :
        /\ run_calls' = [run_calls EXCEPT
                            ![p] = Append(@, Call("cart", run_idx[p], out))]
        /\ IF IsSuccess(out)
           THEN /\ pending' = Append(pending, <<p, run_idx[p]>>)
                /\ run_idx' = [run_idx EXCEPT ![p] = @ + 1]
                /\ RunGoto(p, CartNext(run_req[p], run_idx[p]))
           ELSE /\ pending' = pending
                /\ run_idx' = run_idx
                /\ RunFinish(p, Except(run_req[p], Raised(out)))
    /\ UNCHANGED <<run_req, orders>>
    /\ UNCHANGED svars

\* POST /cart/finalize of p: the pending order, whoever added its lines,
\* becomes an order
RunFinalizeOrder(p) ==
    /\ run_pc[p] = "finalize"
    /\ \E out \in OrderingOutcomes("finalize", pending) :
        /\ run_calls' = [run_calls EXCEPT
                            ![p] = Append(@, Call("finalize", 0, out))]
        /\ IF IsSuccess(out)
           THEN /\ orders' = Append(orders, [by |-> p, lines |-> pending])
                /\ pending' = << >>
           ELSE UNCHANGED <<orders, pending>>
        /\ IF FinalizeRaises(out) # NoException
           THEN RunFinish(p, Except(run_req[p], FinalizeRaises(out)))
           ELSE RunGoto(p, AfterFinalize(run_req[p]))
    /\ UNCHANGED <<run_req, run_idx>>
    /\ UNCHANGED svars

\* POST /delivery/info of p
RunSaveDeliveryInfo(p) ==
    /\ run_pc[p] = "delivery"
    /\ \E out \in OrderingOutcomes("delivery", pending) :
        /\ run_calls' = [run_calls EXCEPT
                            ![p] = Append(@, Call("delivery", 0, out))]
        /\ IF IsSuccess(out)
           THEN RunGoto(p, "update")
           ELSE RunFinish(p, Except(run_req[p], Raised(out)))
    /\ UNCHANGED <<run_req, run_idx, pending, orders>>
    /\ UNCHANGED svars

\* PUT /cart/update-payment of p, and the success message after it
RunUpdatePayment(p) ==
    /\ run_pc[p] = "update"
    /\ \E out \in OrderingOutcomes("update", pending) :
        /\ run_calls' = [run_calls EXCEPT
                            ![p] = Append(@, Call("update", 0, out))]
        /\ IF IsSuccess(out)
           THEN RunFinish(p, Ok("Payment confirmed and order placed successfully"))
           ELSE RunFinish(p, Except(run_req[p], Raised(out)))
    /\ UNCHANGED <<run_req, run_idx, pending, orders>>
    /\ UNCHANGED svars

NextRuns ==
    \/ \E p \in Runs : RunAddCartItem(p)
    \/ \E p \in Runs : RunFinalizeOrder(p)
    \/ \E p \in Runs : RunSaveDeliveryInfo(p)
    \/ \E p \in Runs : RunUpdatePayment(p)

SpecRuns == InitRuns /\ [][NextRuns]_vars

\* ================================================================ claims ====
IsCheckout == req.endpoint = "create_checkout"

\* a 2xx answer, by its status code
Is2xx(out) == out.kind = "status" /\ out.code >= 200 /\ out.code <= 299

\* the positions in calls of the calls of `step`
CallsOf(step) == {k \in 1..Len(calls) : calls[k].step = step}

\* the identity check returned success and the role was accepted
Authenticated ==
    /\ Len(calls) >= 1
    /\ Is2xx(calls[1].out)
    /\ resp.detail # "Access denied."

\* the checkout-session request, carrying line_items, has been sent
SessionSent == CallsOf("session") # {}

\* N >= 1 lines, quantity >= 1, price >= 0, 0 <= discount <= subtotal
ValidCart ==
    /\ Len(req.items) >= 1
    /\ \A k \in 1..Len(req.items) :
        req.items[k].quantity >= 1 /\ req.items[k].price >= 0
    /\ req.discount >= 0
    /\ req.discount <= Subtotal(req.items)
    /\ req.delivery_fee >= 0

SumAmounts(li) == SumSeq([k \in 1..Len(li) |-> li[k].amount])

\* round((subtotal - discount + delivery_fee) * 100)
ExpectedTotal == PyRound(Subtotal(req.items) - req.discount + req.delivery_fee, 10)

\* C1: for every valid cart, discount and delivery fee, the amounts of the
\* line items sent to the processor sum to round((subtotal - discount +
\* delivery_fee) * 100), which is also the computed total in centavos.
C1_Exactness ==
    (IsCheckout /\ SessionSent /\ ValidCart) =>
        /\ SumAmounts(line_items) = ExpectedTotal
        /\ total_centavos = ExpectedTotal

\* C2: an authenticated create-checkout request whose discount exceeds the
\* subtotal ends with HTTP 400 and never yields a checkout_url, whatever the
\* items and the delivery fee.
C2_Rejection ==
    (IsCheckout /\ Authenticated /\ req.discount > Subtotal(req.items)) =>
        /\ pc \in {"discount_check", "done"}
        /\ pc = "done" => (resp.kind = "error" /\ resp.status = 400)
        /\ resp.detail # "checkout_url"

C2_Witness ==
    /\ IsCheckout /\ Authenticated /\ pc = "done"
    /\ req.discount > Subtotal(req.items)
    /\ Len(req.items) = MaxLines
    /\ Subtotal(req.items) > 0
    /\ req.delivery_fee > req.discount
    /\ resp.status = 400

\* the finalize call of the run came back 404
Finalize404 ==
    \E k \in CallsOf("finalize") :
        calls[k].out.kind = "status" /\ calls[k].out.code = 404

\* C3: in both confirm endpoints, once finalize has returned 404 no
\* delivery-info, update-payment or POS call is issued in that run.
C3_AbortAfterFinalize404 ==
    Finalize404 =>
        /\ CallsOf("delivery") = {}
        /\ CallsOf("update") = {}
        /\ CallsOf("pos") = {}
        /\ pc = "done"

C3_Witness ==
    /\ Finalize404 /\ pc = "done"
    /\ req.endpoint = "confirm_payment_and_save_pos"
    /\ req.delivery_info
    /\ Len(req.items) > 0

\* C4: in both confirm endpoints a finalize that returns 404 reaches the
\* client as status 404 with the "No pending order found for user" detail.
C4_Finalize404Surfaced ==
    (Finalize404 /\ pc = "done") =>
        /\ resp.status = 404
        /\ resp.detail = "No pending order found for user"

\* C5: in the pos variant, a POS payload that fails validation against
\* OnlineOrderRequest ends the run with HTTP 500 and no request to the POS
\* service is sent in that run.
C5_PosSchemaGate ==
    pos_valid = "invalid" =>
        /\ CallsOf("pos") = {}
        /\ pc = "done"
        /\ resp.kind = "error"
        /\ resp.status = 500

C5_Witness ==
    /\ pos_valid = "invalid"
    /\ pc = "done"
    /\ resp.detail = "Invalid POS payload"
    /\ CallsOf("update") # {}
    /\ Len(pos_payload.items) > 0

\* C6: with discount = 0 every line's amount, the last included, is
\* round(unit_price * quantity * 100), and the drift is 0 after every line.
C6_ZeroDiscountIdentity ==
    (IsCheckout /\ SessionSent /\ ValidCart /\ req.discount = 0) =>
        /\ \A k \in 1..Len(req.items) :
            line_items[k].amount =
                PyRound(req.items[k].price * req.items[k].quantity, 10)
        /\ \A k \in 1..(Len(req.items) - 1) :
            AccumulatedNum(req.items, req.discount, k) = 0

\* C7: for a cart of exactly one line the line's amount is
\* round((unit_price * quantity - discount) * 100) for every discount up to
\* the subtotal; price 10.00, quantity 3, discount 1.00 gives 2900.
C7_SingleItemAbsorption ==
    (IsCheckout /\ SessionSent /\ ValidCart /\ Len(req.items) = 1) =>
        line_items[1].amount =
            PyRound(req.items[1].price * req.items[1].quantity - req.discount, 10)

\* the positions in line_items of the delivery line
DeliveryLineOf(li) == {k \in 1..Len(li) : li[k].name = "Delivery Fee"}

\* C8: the line items hold exactly one delivery line, of quantity 1 and
\* amount round(delivery_fee * 100), when delivery_fee > 0, and none when
\* delivery_fee = 0.
C8_DeliveryLine ==
    (IsCheckout /\ SessionSent) =>
        IF req.delivery_fee > 0
        THEN /\ Cardinality(DeliveryLineOf(line_items)) = 1
             /\ \A k \in DeliveryLineOf(line_items) :
                 /\ line_items[k].quantity = 1
                 /\ line_items[k].amount = PyRound(req.delivery_fee, 10)
        ELSE DeliveryLineOf(line_items) = {}

\* the steps of the calls issued, in order
StepsOf(cs) == [k \in 1..Len(cs) |-> <<cs[k].step, cs[k].line>>]

\* S0, S1 (one cart POST per line, when the variant has S1), S2, S3 (when
\* delivery_info is present), S4, S5 (pos variant)
Pipeline(r, withCart) ==
    << <<"auth", 0>> >>
    \o (IF withCart THEN [k \in 1..Len(r.items) |-> <<"cart", k>>] ELSE << >>)
    \o << <<"finalize", 0>> >>
    \o (IF r.delivery_info THEN << <<"delivery", 0>> >> ELSE << >>)
    \o << <<"update", 0>> >>
    \o (IF r.endpoint = "confirm_payment_and_save_pos"
        THEN << <<"pos", 0>> >> ELSE << >>)

IsPrefix(a, b) == Len(a) <= Len(b) /\ \A k \in 1..Len(a) : a[k] = b[k]

\* the calls issued so far are the first calls of the pipeline, each issued
\* after every earlier one returned success; a successful run issued them all
InOrder(withCart) ==
    /\ IsPrefix(StepsOf(calls), Pipeline(req, withCart))
    /\ \A k \in 1..(Len(calls) - 1) : Is2xx(calls[k].out)
    /\ (pc = "done" /\ resp.kind = "ok") =>
           StepsOf(calls) = Pipeline(req, withCart)

\* C9 as stated: in both confirm endpoints the calls are issued in the order
\* S1 (cart POSTs) -> S2 -> S3 (iff delivery_info) -> S4 -> S5 (pos variant),
\* each only after every earlier step's call returned success.
C9_StepOrder == IsConfirm => InOrder(TRUE)

\* C9 amended: the same order and gating, where S1 (the cart POSTs) belongs
\* to confirm-payment only; confirm-payment-and-save-pos issues no cart POST
\* and runs S2 -> S3 (iff delivery_info) -> S4 -> S5.
C9_StepOrderAmended == IsConfirm => InOrder(req.endpoint = "confirm_payment")

C9_Witness ==
    /\ req.endpoint = "confirm_payment_and_save_pos"
    /\ pc = "done" /\ resp.kind = "ok"
    /\ req.delivery_info
    /\ Len(req.items) = MaxCart
    /\ CallsOf("cart") = {}
    /\ CallsOf("delivery") # {} /\ CallsOf("pos") # {}

\* C10: in both confirm endpoints, once a call returns non-2xx or fails at
\* network level no further call is issued, the run ends with an error
\* response, and no step or cart line is ever called twice.
C10_AbortNoRetry ==
    IsConfirm =>
        /\ \A k \in 1..Len(calls) :
            ~Is2xx(calls[k].out) =>
                (k = Len(calls) /\ pc = "done" /\ resp.kind = "error")
        /\ \A j, k \in 1..Len(calls) :
            j < k => StepsOf(calls)[j] # StepsOf(calls)[k]

C10_Witness ==
    /\ req.endpoint = "confirm_payment"
    /\ pc = "done" /\ resp.kind = "error"
    /\ Cardinality(CallsOf("cart")) = MaxCart
    /\ \E k \in CallsOf("update") : calls[k].out.kind = "neterr"
    /\ CallsOf("delivery") # {}

\* the calls issued to the ordering service, the POS service, the profile
\* endpoint or the payment processor
BeyondAuth == {k \in 1..Len(calls) : calls[k].step # "auth"}

\* C11: in all three endpoints no call other than the identity check is
\* issued unless the identity check returned success with a role in {user,
\* admin, staff}; a non-2xx answer of the identity service reaches the client
\* with the same status code, and a role outside the set gives 403.
C11_AuthGate ==
    (IsCheckout \/ IsConfirm) =>
        /\ BeyondAuth # {} =>
            /\ calls[1].step = "auth" /\ Is2xx(calls[1].out)
            /\ role \in {"user", "admin", "staff"}
        /\ \A k \in CallsOf("auth") :
            /\ k = 1
            /\ (calls[k].out.kind = "status" /\ ~Is2xx(calls[k].out)) =>
                   (pc = "done" /\ resp.kind = "error"
                    /\ resp.status = calls[k].out.code /\ Len(calls) = 1)
            /\ (Is2xx(calls[k].out) /\ role \notin {"user", "admin", "staff"}) =>
                   (pc = "done" /\ resp.kind = "error" /\ resp.status = 403
                    /\ Len(calls) = 1)

\* a role outside the set was turned away
C11_Witness ==
    /\ pc = "done" /\ role = "rider"
    /\ resp.status = 403
    /\ BeyondAuth = {}
    /\ req.endpoint = "confirm_payment_and_save_pos"
    /\ Len(req.items) > 0

\* the calls to the ordering service that came back with a non-2xx status,
\* the finalize 404 (which has its own error) aside
OrderingRefusals ==
    {k \in 1..Len(calls) :
        /\ calls[k].step \in {"cart", "finalize", "delivery", "update"}
        /\ calls[k].out.kind = "status" /\ ~Is2xx(calls[k].out)
        /\ ~(calls[k].step = "finalize" /\ calls[k].out.code = 404)}

\* C12: in both confirm endpoints, a cart POST, finalize (other than 404),
\* delivery-info or update-payment call that returns a non-2xx status s gives
\* the client exactly status s and a detail quoting the ordering service's
\* response body.
C12_OrderingErrorPropagation ==
    \A k \in OrderingRefusals :
        /\ pc = "done" /\ resp.kind = "error"
        /\ resp.status = calls[k].out.code
        /\ resp.body = calls[k].out.text

C12_Witness ==
    /\ req.endpoint = "confirm_payment_and_save_pos"
    /\ pc = "done"
    /\ \E k \in OrderingRefusals :
        calls[k].step = "delivery" /\ calls[k].out.code = 404
    /\ resp.status = 404 /\ resp.body = "delivery"

\* C13: in the pos variant, when the ordering calls all succeeded and the
\* POS call then fails (a non-2xx status or a network failure), the client
\* receives an error whose detail says the order was already created in the
\* ordering service, an error no ordering-service failure produces.
C13_PosFailureDistinct ==
    \A k \in CallsOf("pos") :
        ~Is2xx(calls[k].out) =>
            /\ pc = "done" /\ resp.kind = "error"
            /\ resp.detail = "Order created in OOS but failed to save to POS"

\* C14: an authenticated create-checkout request with discount <= subtotal
\* returns {checkout_url} if and only if the checkout-session call returned
\* success; a non-2xx status s of that call reaches the client as status s;
\* the 400 of an invalid discount is never turned into another status.
C14_CheckoutOutcome ==
    (IsCheckout /\ Authenticated /\ pc = "done") =>
        /\ req.discount <= Subtotal(req.items) =>
            /\ (resp.kind = "ok" /\ resp.detail = "checkout_url")
                   <=> (\E k \in CallsOf("session") : Is2xx(calls[k].out))
            /\ \A k \in CallsOf("session") :
                (calls[k].out.kind = "status" /\ ~Is2xx(calls[k].out)) =>
                    (resp.kind = "error" /\ resp.status = calls[k].out.code)
        /\ req.discount > Subtotal(req.items) =>
            (resp.kind = "error" /\ resp.status = 400)

C14_Witness ==
    /\ IsCheckout /\ Authenticated /\ pc = "done"
    /\ req.discount > 0 /\ req.discount <= Subtotal(req.items)
    /\ \E k \in CallsOf("session") : calls[k].out.code = 400
    /\ resp.status = 400 /\ resp.detail = "PayMongo payment error."

\* one cart POST per entry of cart_items, in input order, all before finalize
CartPostsComplete ==
    /\ Cardinality(CallsOf("cart")) = Len(req.items)
    /\ \A i \in 1..Len(req.items) :
        \E k \in CallsOf("cart") :
            /\ calls[k].line = i
            /\ Cardinality({j \in CallsOf("cart") : j < k}) = i - 1
    /\ \A k \in CallsOf("cart") : \A f \in CallsOf("finalize") : k < f

SuccessfulRun == IsConfirm /\ pc = "done" /\ resp.kind = "ok"

\* C15 as stated: every successful run of either confirm endpoint has issued
\* exactly one cart POST per entry of cart_items, in input order, all before
\* the finalize call.
C15_CartPostsEveryVariant == SuccessfulRun => CartPostsComplete

\* C15 amended: every successful run of confirm-payment has issued exactly
\* one cart POST per entry of cart_items, in input order, all before the
\* finalize call; a run of confirm-payment-and-save-pos issues no cart POST.
C15_CartPostsConfirmOnly ==
    /\ (SuccessfulRun /\ req.endpoint = "confirm_payment") => CartPostsComplete
    /\ req.endpoint = "confirm_payment_and_save_pos" => CallsOf("cart") = {}

C15_Witness ==
    /\ SuccessfulRun /\ req.endpoint = "confirm_payment"
    /\ Len(req.items) = MaxCart
    /\ req.items[1] # req.items[MaxCart]
    /\ CartPostsComplete

\* the calls a confirm endpoint can issue: all of them forward steps, none
\* of them undoes an earlier one
ForwardSteps == {"auth", "cart", "finalize", "delivery", "update", "pos"}

\* what the ordering service holds, by the calls it answered with success
OrderFinalized == \E k \in CallsOf("finalize") : Is2xx(calls[k].out)
DeliverySaved == \E k \in CallsOf("delivery") : Is2xx(calls[k].out)
PaymentSaved == \E k \in CallsOf("update") : Is2xx(calls[k].out)

\* C16: no compensation. Every call a confirm run issues is a forward step
\* and a failed call is the run's last call; so when S3 fails after S2
\* succeeded the order stays finalized without delivery info and without
\* payment fields, and the client gets an error response.
C16_NoCompensation ==
    IsConfirm =>
        /\ \A k \in 1..Len(calls) : calls[k].step \in ForwardSteps
        /\ \A k \in 1..Len(calls) : ~Is2xx(calls[k].out) => k = Len(calls)
        /\ \A k \in CallsOf("delivery") :
            ~Is2xx(calls[k].out) =>
                /\ OrderFinalized /\ ~DeliverySaved /\ ~PaymentSaved
                /\ pc = "done" /\ resp.kind = "error" /\ resp.status >= 400

C16_Witness ==
    /\ req.endpoint = "confirm_payment"
    /\ Cardinality(CallsOf("cart")) = Len(req.items)
    /\ OrderFinalized /\ ~DeliverySaved /\ ~PaymentSaved
    /\ \E k \in CallsOf("delivery") : ~Is2xx(calls[k].out) /\ k = Len(calls)
    /\ pc = "done" /\ resp.kind = "error"

\* the steps of one confirm_payment run after S0
RunPipeline(r) == Tail(Pipeline(r, TRUE))

\* the cart lines run p got accepted
LinesPosted(p) ==
    {<<p, run_calls[p][k].line>> :
        k \in {j \in 1..Len(run_calls[p]) :
                  run_calls[p][j].step = "cart" /\ Is2xx(run_calls[p][j].out)}}

\* the lines of the orders finalized by a run of `by`
LinesOrdered(by) ==
    UNION {{orders[k].lines[j] : j \in 1..Len(orders[k].lines)} :
              k \in {i \in 1..Len(orders) : orders[i].by \in by}}

RunGot404(p) ==
    \E k \in 1..Len(run_calls[p]) :
        /\ run_calls[p][k].step = "finalize"
        /\ run_calls[p][k].out.kind = "status"
        /\ run_calls[p][k].out.code = 404

\* C17: two concurrent confirm-payment runs of one username are not
\* serialized, yet in every interleaving each run's own calls are S1 (its
\* cart POSTs in input order) -> S2 -> S3 (iff delivery_info) -> S4, each
\* after the run's earlier calls succeeded; and a run whose finalize found
\* no pending order has all the lines it added inside the other run's
\* finalized order.
C17_PerRunOrder ==
    \A p \in Runs :
        /\ IsPrefix(StepsOf(run_calls[p]), RunPipeline(run_req[p]))
        /\ \A k \in 1..(Len(run_calls[p]) - 1) : Is2xx(run_calls[p][k].out)
        /\ (run_pc[p] = "done" /\ run_resp[p].kind = "ok") =>
               StepsOf(run_calls[p]) = RunPipeline(run_req[p])
        /\ RunGot404(p) => LinesPosted(p) \subseteq LinesOrdered(Runs \ {p})

\* B's finalize ran after all of A's cart POSTs and before A's finalize:
\* B's order holds A's lines next to its own, B's run succeeded, and A's
\* finalize found no pending order
C17_Witness ==
    \E a \in Runs : \E b \in Runs \ {a} :
        /\ Len(run_req[a].items) = MaxCart
        /\ Cardinality(LinesPosted(a)) = MaxCart
        /\ LinesPosted(b) # {}
        /\ Len(orders) = 1
        /\ LinesPosted(a) \cup LinesPosted(b) = LinesOrdered({b})
        /\ run_pc[b] = "done" /\ run_resp[b].kind = "ok"
        /\ RunGot404(a)
        /\ run_pc[a] = "done" /\ run_resp[a].kind = "error"

\* round(unit_price * discount_ratio * 100)
PerUnitMinor(k) ==
    PyRound(req.items[k].price * DiscountRatio(req.items, req.discount)[1],
            CentDen(req.items, req.discount))

\* C18: every line but the last has the amount per_unit_minor * quantity,
\* per_unit_minor = round(unit_price * discount_ratio * 100), with no drift
\* added to it.
C18_NonLastLineAmount ==
    (IsCheckout /\ SessionSent /\ ValidCart) =>
        \A k \in 1..(Len(req.items) - 1) :
            line_items[k].amount = PerUnitMinor(k) * req.items[k].quantity

\* the drift after the lines 1..k as a numerator over CentDen: the signed sum
\* of unit_price * quantity * discount_ratio * 100 - the line's amount
RECURSIVE DriftNum(_)
DriftNum(k) ==
    IF k = 0 THEN 0
    ELSE DriftNum(k - 1)
         + req.items[k].price * req.items[k].quantity
           * DiscountRatio(req.items, req.discount)[1]
         - line_items[k].amount * CentDen(req.items, req.discount)

\* C19: the last line's amount is per_unit_minor * quantity + round(drift),
\* the drift being the signed sum over the preceding lines of
\* unit_price * quantity * discount_ratio * 100 - that line's amount.
C19_LastLineAbsorbsDrift ==
    (IsCheckout /\ SessionSent /\ ValidCart) =>
        line_items[Len(req.items)].amount =
            PerUnitMinor(Len(req.items)) * req.items[Len(req.items)].quantity
            + PyRound(DriftNum(Len(req.items) - 1),
                      CentDen(req.items, req.discount))

\* what the request sent to the POS service must carry for the order
PosPayloadPreserved ==
    CallsOf("pos") # {} =>
        /\ pos_payload.status = "pending"
        /\ Len(pos_payload.items) = Len(req.items)
        /\ \A k \in 1..Len(req.items) :
            /\ pos_payload.items[k].quantity = req.items[k].quantity
            /\ pos_payload.items[k].price = req.items[k].price
            /\ pos_payload.items[k].discount =
                   (IF req.items[k].discount = << >> THEN 0
                    ELSE req.items[k].discount[1])

\* C20: every request sent to the POS service has status "pending" and one
\* item per entry of cart_items, in input order, with the cart item's own
\* quantity and price (never a discounted price) and its discount (0 when
\* absent); and no step of a run modifies the inbound payload.
C20_PosPayloadPreservesOrder == [](PosPayloadPreserved) /\ [][req' = req]_vars

C20_Witness ==
    /\ req.endpoint = "confirm_payment_and_save_pos"
    /\ CallsOf("pos") # {}
    /\ Len(req.items) = MaxCart
    /\ \E k \in 1..Len(req.items) : req.items[k].discount = << >>
    /\ \E k \in 1..Len(req.items) :
        req.items[k].discount # << >> /\ req.items[k].discount[1] > 0
    /\ pos_payload.status = "pending"
    /\ pc = "done" /\ resp.kind = "ok"

\* C21: in create-checkout, when discount > subtotal, no request goes to the
\* profile endpoint, to the processor's customers endpoint or to its
\* checkout_sessions endpoint; the only outbound call is the identity check.
C21_DiscountBeforeTraffic ==
    (IsCheckout /\ req.discount > Subtotal(req.items)) =>
        /\ CallsOf("profile") = {}
        /\ CallsOf("customer") = {}
        /\ CallsOf("session") = {}
        /\ Len(calls) <= 1
        /\ \A k \in 1..Len(calls) : calls[k].step = "auth"

C21_Witness ==
    /\ IsCheckout /\ req.discount > Subtotal(req.items)
    /\ Len(req.items) >= 1
    /\ pc = "done" /\ resp.kind = "error" /\ resp.status = 400
    /\ Len(calls) = 1 /\ calls[1].step = "auth" /\ Is2xx(calls[1].out)
    /\ line_items = << >>

\* C22: for every valid input (N >= 1 lines, quantity >= 1, price >= 0,
\* 0 <= discount <= subtotal) every line item sent to the processor, the
\* last line after the drift correction included, has an integer amount >= 0.
C22_NoNegativeLineItems ==
    (IsCheckout /\ SessionSent /\ ValidCart) =>
        \A k \in 1..Len(line_items) :
            line_items[k].amount \in Int /\ line_items[k].amount >= 0

\* the profile fetch or the customer-creation call of the run failed
CustomerSetupFailed ==
    \E k \in CallsOf("profile") \cup CallsOf("customer") : ~Is2xx(calls[k].out)

CustomerCreated == \E k \in CallsOf("customer") : Is2xx(calls[k].out)

\* C23: in create-checkout (cart lines of quantity >= 1) a failure of the
\* profile fetch or of the customer-creation call never aborts the request:
\* a run that reached the customer setup ends only after exactly one
\* checkout-session call, no run issues two, and the session body carries
\* 'customer' if and only if the customer-creation call succeeded.
C23_CustomerSetupBestEffort ==
    (IsCheckout /\ \A k \in 1..Len(req.items) : req.items[k].quantity >= 1) =>
        /\ Cardinality(CallsOf("session")) <= 1
        /\ (pc = "done" /\ CallsOf("profile") # {}) =>
               Cardinality(CallsOf("session")) = 1
        /\ CustomerSetupFailed => pc \in {"customer", "session", "done"}
        /\ SessionSent =>
               (session_customer = "attached" <=> CustomerCreated)
        /\ ~SessionSent => session_customer = "none"

C23_Witness ==
    /\ IsCheckout /\ pc = "done"
    /\ \E k \in CallsOf("profile") : Is2xx(calls[k].out)
    /\ \E k \in CallsOf("customer") : ~Is2xx(calls[k].out)
    /\ Cardinality(CallsOf("session")) = 1
    /\ session_customer = "absent"
    /\ resp.kind = "ok"

\* the POS call came back with status 200 or 201
PosReturned200or201 ==
    \E k \in CallsOf("pos") :
        calls[k].out.kind = "status" /\ calls[k].out.code \in {200, 201}

\* the success receipt of confirm-payment-and-save-pos
PosReceipt ==
    /\ pc = "done" /\ resp.kind = "ok" /\ resp.status = 200
    /\ resp.detail =
           "Payment confirmed, order placed successfully, and saved to POS as PENDING"

\* C24: confirm-payment-and-save-pos returns the success receipt if and only
\* if the POS call returned 200 or 201; every other POS status, other 2xx
\* codes included, ends the run with HTTP 500 whatever the POS status was,
\* and by then finalize and update-payment have taken effect.
C24_PosSuccessStatuses ==
    req.endpoint = "confirm_payment_and_save_pos" =>
        /\ PosReceipt <=> PosReturned200or201
        /\ resp.kind = "ok" => PosReceipt
        /\ \A k \in CallsOf("pos") :
            (calls[k].out.kind = "status" /\ calls[k].out.code \notin {200, 201})
                => (pc = "done" /\ resp.kind = "error" /\ resp.status = 500)
        /\ CallsOf("pos") # {} => (OrderFinalized /\ PaymentSaved)

C24_Witness ==
    /\ req.endpoint = "confirm_payment_and_save_pos"
    /\ \E k \in CallsOf("pos") :
        calls[k].out.kind = "status" /\ calls[k].out.code = 204
    /\ pc = "done" /\ resp.kind = "error" /\ resp.status = 500
    /\ OrderFinalized /\ PaymentSaved
    /\ Len(req.items) >= 1

\* an authorized status update that ended without a failing database call
StatusUpdateDone ==
    /\ req.endpoint = "update_status"
    /\ \E k \in CallsOf("auth") : Is2xx(calls[k].out)
    /\ role \in {"rider", "admin", "staff", "cashier"}
    /\ pc = "done"
    /\ ~db.failed

\* C25: an authorized PATCH of the status of an order that does not exist
\* gets 404 "Order not found", executes and commits no UPDATE, and closes
\* cursor and connection; for an order that exists the status is set to
\* newStatus and committed exactly once.
C25_StatusUpdate ==
    StatusUpdateDone =>
        /\ db.cursor = "closed" /\ db.conn = "closed"
        /\ ~db.exists =>
            /\ resp.kind = "error" /\ resp.status = 404
            /\ resp.detail = "Order not found"
            /\ db.updates = 0 /\ db.commits = 0
        /\ db.exists =>
            /\ resp.kind = "ok"
            /\ db.status = req.newStatus
            /\ db.updates = 1 /\ db.commits = 1

====
